---------------------------- MODULE Spec2Model ----------------------------
(***************************************************************************)
(* Chunked file upload: the receiver (src/server.go) and the sender        *)
(* (src/unnamed/part_000, the client).                                     *)
(*                                                                         *)
(* The receiver serves every request in its own goroutine (net/http), so   *)
(* a handler is modelled as a task in a slot of `handlers`.  The handlers  *)
(* of Register and of a chunk upload are one step each; the handler of     *)
(* Complete, whose race on the destination file, the chunk files and the   *)
(* ledger the design leaves open, advances one file operation per step.    *)
(* The file system is modelled by three maps: the chunk files              *)
(* "<id>_part_<n>", the destination files "final_<fileName>" and the       *)
(* ledger file "fileInfoDB.json".  A file's content is a sequence of       *)
(* bytes.  An open file descriptor keeps its own offset (`off`), a write   *)
(* past the end of a file fills the gap with zero bytes, and os.Create of  *)
(* an existing file truncates it in place (O_TRUNC).                       *)
(*                                                                         *)
(* SHA-256 is modelled as an ideal hash: an injective function of the      *)
(* bytes hashed.                                                           *)
(***************************************************************************)
EXTENDS Integers, Sequences, FiniteSets, TLC

(***************************************************************************)
(* Bounds of the model.                                                    *)
(***************************************************************************)
\* the wall clock reads 1..MaxClock
MaxClock == 2
\* source files hold 1..MaxFileSize bytes
MaxFileSize == 2
\* non-zero byte values are 1..MaxByte; 0 is the byte of a hole
MaxByte == 2
\* number of requests the receiver serves at the same time
MaxHandlers == 2
\* number of requests of each operation the clients issue in a run
MaxRegisters == 2
MaxUploads == 2
MaxCompletes == 2
\* registrations checked for their chunk plan alone announce 1..MaxPlanFileSize
\* bytes
MaxPlanFileSize == 5
\* a sender is started on a file of 0..MaxSenderFileSize bytes
MaxSenderFileSize == 5

\* calculateChunkSize's range, scaled from 100 KiB .. 4 MiB to the model's
\* file sizes so that both the clamp and a multi-chunk plan occur.
minChunkSize == 1
maxChunkSize == 2

StatusOK == 200
StatusBadRequest == 400
StatusInternalServerError == 500

Bytes == 1..MaxByte
Slots == 1..MaxHandlers
FileNames == {"a"}

\* the source file of n bytes: its bytes differ from their neighbours, so
\* that a reordering, a loss or a repetition of bytes changes the content
SourceFile(n) == [j \in 1..n |-> ((j - 1) % MaxByte) + 1]

\* the source files a sender may upload (non-empty, see the client's main)
SourceFiles == {SourceFile(n) : n \in 1..MaxFileSize}

\* the bodies of chunk requests: every slice of a source file of at most
\* maxChunkSize bytes, whichever chunk it is sent as
Slices(f) ==
    {SubSeq(f, a, b) : a \in 1..Len(f), b \in 1..Len(f)} \ {<<>>}
Bodies ==
    {b \in UNION {Slices(f) : f \in SourceFiles} : Len(b) <= maxChunkSize}

(***************************************************************************)
(* Pure helpers.                                                           *)
(***************************************************************************)
Max(a, b) == IF a > b THEN a ELSE b

\* sha256 of a byte sequence, rendered with %x: an ideal (injective) hash.
\* The empty tuple stands for the empty string (no hash).
sha256(bytes) == <<"sha256", bytes>>

\* a map (Go map, or a directory) as a function on the keys present
Put(m, k, v) == [x \in (DOMAIN m) \cup {k} |-> IF x = k THEN v ELSE m[x]]
Del(m, k) == [x \in (DOMAIN m) \ {k} |-> m[x]]
EmptyMap == [x \in {} |-> 0]

\* the write of `data` at offset `off` of a file holding `f`
WriteAt(f, off, data) ==
    [j \in 1..Max(Len(f), off + Len(data)) |->
        IF j > off /\ j <= off + Len(data) THEN data[j - off]
        ELSE IF j <= Len(f) THEN f[j]
        ELSE 0]

\* math.Ceil(float64(a) / float64(b)) for the small positive values of the model
FloorDiv(a, b) == a \div b
CeilDiv(a, b) == (a + b - 1) \div b

\* calculateChunkSize with the value rand.Intn drew
Unclamped(fileSize, randomChunkSize) == randomChunkSize
calculateChunkSize(fileSize, randomChunkSize) ==
    IF randomChunkSize > fileSize THEN fileSize ELSE randomChunkSize

\* the zero value of FileMetadata
NoMetadata ==
    [ID |-> 0, FileName |-> "", FileSize |-> 0, FileHash |-> <<>>,
     ChunkSize |-> 0, TotalChunks |-> 0]

\* the chunk file "<fileID>_part_<num>"
NameWithoutNumber(fileID, num) == <<fileID, 1>>
chunkFileName(fileID, num) == <<fileID, num>>

Min(a, b) == IF a < b THEN a ELSE b

\* what the sender's file.Read returns for chunk `num` of `file` with a
\* buffer of chunkSize bytes: the next chunkSize bytes, or the remainder
ChunkOf(file, chunkSize, num) ==
    SubSeq(file, (num - 1) * chunkSize + 1, Min(num * chunkSize, Len(file)))

VARIABLES
    now,            \* the last reading of time.Now().UnixNano()
    filesMetadata,  \* the metadata table: id -> FileMetadata
    chunkFiles,     \* chunk files on disk: <<id, n>> -> bytes
    finalFiles,     \* destination files on disk: fileName -> bytes
    fileInfoDB,     \* the ledger file: [exists, records]
    handlers,       \* the request handlers in flight
    response,       \* the response the last step wrote, if it wrote one
    issued,         \* the number of requests issued so far, by operation
    removed,        \* history: the chunk files a Complete folded and removed,
                    \*   and that no upload has written since
    arrived,        \* history: the chunks received, in the order of arrival
    sender          \* the sender (the client's main) and its locals

vars == <<now, filesMetadata, chunkFiles, finalFiles, fileInfoDB, handlers,
          response, issued, removed, arrived, sender>>

\* A free slot; the locals of a handler are its fields.  Four fields are
\* history kept for the properties: `copied`, the bytes the handler appended
\* to the destination file; `hashed`, the bytes it hashed; `raced`, whether
\* another handler created or wrote the destination file while this one
\* had it open; `recorded`, whether the ledger held a record of the id when
\* this Complete started.
Idle ==
    [op |-> "idle", pc |-> "idle", fileID |-> 0, num |-> 0, body |-> <<>>,
     chunkHash |-> <<>>, metadata |-> NoMetadata, i |-> 0, off |-> 0,
     fileInfos |-> <<>>, copied |-> <<>>, hashed |-> <<>>, raced |-> FALSE,
     recorded |-> FALSE]

\* the handler writes its response and returns: the status and the message
\* the client receives, with the request and the locals of the handler at
\* that moment (the metadata is also the body of a registration's response)
Respond(h, status, msg) ==
    [op |-> h.op, fileID |-> h.fileID, num |-> h.num, body |-> h.body,
     chunkHash |-> h.chunkHash, metadata |-> h.metadata, copied |-> h.copied,
     hashed |-> h.hashed, raced |-> h.raced, recorded |-> h.recorded,
     status |-> status, msg |-> msg]
NoResponse == Respond(Idle, 0, "")

\* the sender before it runs
NoSender ==
    [pc |-> "off", file |-> <<>>, fileName |-> "", regResponse |-> NoMetadata,
     pos |-> 0, chunkNumber |-> 0, sent |-> <<>>, completeStatus |-> 0,
     printed |-> <<>>, exitCode |-> 0]

\* the records of the ledger for id
RecordsOf(id) == {k \in 1..Len(fileInfoDB.records) : fileInfoDB.records[k].ID = id}

\* the ledger holds a record for id: a Complete(id) has succeeded
Recorded(id) == RecordsOf(id) # {}

\* a new request is served by a free handler
FreeSlots == {t \in Slots : handlers[t].op = "idle"}
Accepts(t) == t \in FreeSlots /\ \A u \in FreeSlots : t <= u

InitReceiver ==
    /\ now = 0
    /\ filesMetadata = EmptyMap
    /\ chunkFiles = EmptyMap
    /\ finalFiles = EmptyMap
    /\ fileInfoDB \in {[exists |-> FALSE, records |-> <<>>],
                       [exists |-> TRUE, records |-> <<>>]}
    /\ handlers = [t \in Slots |-> Idle]
    /\ response = NoResponse
    /\ issued = [register |-> 0, upload |-> 0, complete |-> 0]
    /\ removed = {}
    /\ arrived = <<>>

Init == InitReceiver /\ sender = NoSender

\* a handler goes on with locals h
Continue(t, h) ==
    /\ handlers' = [handlers EXCEPT ![t] = h]
    /\ response' = NoResponse

\* a handler with locals h answers and returns
Finish(t, h, status, msg) ==
    /\ handlers' = [handlers EXCEPT ![t] = Idle]
    /\ response' = Respond(h, status, msg)

\* history: handler t creates or writes destination file `dest`, which the
\* other handlers of hs that are between their os.Create and their re-read
\* of it have open
Disturb(hs, t, dest) ==
    [u \in Slots |->
        IF /\ u # t /\ hs[u].op = "complete"
           /\ hs[u].pc \in {"fold", "remove", "hash"}
           /\ hs[u].metadata.FileName = dest
        THEN [hs[u] EXCEPT !.raced = TRUE]
        ELSE hs[u]]

\* the clients of a run issue at most MaxRegisters, MaxUploads and
\* MaxCompletes requests
Budget ==
    [register |-> MaxRegisters, upload |-> MaxUploads, complete |-> MaxCompletes]
MayIssue(op) == issued[op] < Budget[op]

\* one more request of operation op
Issue(op) == issued' = [issued EXCEPT ![op] = @ + 1]

(***************************************************************************)
(* registerFileHandler                                                     *)
(***************************************************************************)
\* generateUniqueID: the reading of the wall clock (FormatInt is injective)
generateUniqueID(reading) == reading

\* the registration payload the client's main builds for source file `file`
FileInfo(fileName, file) ==
    [NoMetadata EXCEPT !.FileName = fileName, !.FileSize = Len(file),
                       !.FileHash = sha256(file)]

\* the readings time.Now() may give after the reading `now` (0: none yet):
\* the clock does not run backwards, and two calls close enough in time (two
\* handlers running in parallel) read the same nanosecond.  Only the
\* equality of readings matters, so the clock advances by one or not at all.
Readings == {r \in 1..MaxClock : r = now \/ r = now + 1}

\* The whole handler: decode the payload, allocate the id, plan the chunks,
\* insert under metadataMutex and answer with the metadata.  The insert is
\* its only access to shared state.
registerFileHandler(t, fileName, file, reading, randomChunkSize) ==
    /\ Accepts(t)
    /\ reading \in Readings
    /\ now' = reading
    /\ LET decoded == FileInfo(fileName, file)
           chunkSize == calculateChunkSize(decoded.FileSize, randomChunkSize)
           metadata == [decoded EXCEPT
                          !.ID = generateUniqueID(reading),
                          !.ChunkSize = chunkSize,
                          !.TotalChunks = CeilDiv(decoded.FileSize, chunkSize)]
       IN  /\ filesMetadata' = Put(filesMetadata, metadata.ID, metadata)
           /\ Finish(t, [Idle EXCEPT !.op = "register", !.fileID = metadata.ID,
                                     !.metadata = metadata], StatusOK, "")
    /\ Issue("register")
    /\ UNCHANGED <<chunkFiles, finalFiles, fileInfoDB, removed>>

(***************************************************************************)
(* uploadChunkHandler                                                      *)
(***************************************************************************)
\* the comparison of the computed digest with the Chunk-Hash header
AcceptAnyChunk(body, chunkHash) == TRUE
chunkHashMatches(body, chunkHash) == sha256(body) = chunkHash

\* The whole handler: os.Create of the chunk file (a new file, or the old
\* one truncated), io.Copy of the body into it through the hasher, then the
\* comparison with the claimed digest.  On a mismatch the handler answers
\* and returns; the chunk file stays as written.  The handler is one step:
\* a chunk file is read by another handler before or after its upload.
uploadChunkHandler(t, fileID, num, body, chunkHash) ==
    /\ Accepts(t)
    /\ chunkFiles' = Put(chunkFiles, chunkFileName(fileID, num), WriteAt(<<>>, 0, body))
    /\ removed' = removed \ {chunkFileName(fileID, num)}
    /\ LET h == [Idle EXCEPT !.op = "upload", !.fileID = fileID, !.num = num,
                             !.body = body, !.chunkHash = chunkHash]
       IN  IF chunkHashMatches(body, chunkHash)
           THEN Finish(t, h, StatusOK, "")
           ELSE Finish(t, h, StatusBadRequest, "Chunk hash mismatch")
    /\ Issue("upload")
    /\ UNCHANGED <<now, filesMetadata, finalFiles, fileInfoDB>>

(***************************************************************************)
(* completeUploadHandler                                                   *)
(***************************************************************************)
\* the destination file "final_<FileName>"
finalFileName(metadata) == metadata.FileName

\* the pc of the reassembly loop for index i
LoopPc(i, metadata) == IF i <= metadata.TotalChunks THEN "fold" ELSE "hash"

\* metadata, ok := filesMetadata[fileID]: the zero value when there is no
\* such key
LookupIgnoringOk(table, fileID) ==
    [ok |-> TRUE,
     metadata |-> IF fileID \in DOMAIN table THEN table[fileID] ELSE NoMetadata]
lookupMetadata(table, fileID) ==
    IF fileID \in DOMAIN table
    THEN [ok |-> TRUE, metadata |-> table[fileID]]
    ELSE [ok |-> FALSE, metadata |-> NoMetadata]

\* The lookup in the metadata table under metadataMutex, then os.Create of
\* the destination file and the id check.
CompleteCreate(t, fileID) ==
    /\ Accepts(t)
    /\ Issue("complete")
    /\ IF ~lookupMetadata(filesMetadata, fileID).ok
       THEN /\ Finish(t, [Idle EXCEPT !.op = "complete", !.fileID = fileID],
                      StatusBadRequest, "File metadata not found")
            /\ finalFiles' = finalFiles
       ELSE LET h == [Idle EXCEPT !.op = "complete", !.fileID = fileID,
                                  !.recorded = Recorded(fileID),
                                  !.metadata =
                                     lookupMetadata(filesMetadata, fileID).metadata]
                dest == finalFileName(h.metadata)
                others == Disturb(handlers, t, dest)
            IN  /\ finalFiles' = Put(finalFiles, dest, <<>>)
                /\ IF h.fileID # h.metadata.ID
                   THEN /\ handlers' = others
                        /\ response' = Respond(h, StatusInternalServerError,
                                                "id are not the same")
                   ELSE /\ handlers' = [others EXCEPT ![t] =
                                           [h EXCEPT !.pc = LoopPc(1, h.metadata),
                                                     !.i = 1, !.off = 0]]
                        /\ response' = NoResponse
    /\ UNCHANGED <<now, filesMetadata, chunkFiles, fileInfoDB, removed>>

\* os.Stat of chunk file `name`
IgnoreMissingChunk(name) == TRUE
chunkFileExists(name) == name \in DOMAIN chunkFiles

\* the bytes io.Copy reads from chunk file `name`
chunkFileBytes(name) == IF name \in DOMAIN chunkFiles THEN chunkFiles[name] ELSE <<>>

\* one turn of the loop up to io.Copy: stat, open and append chunk i
CompleteFold(t) ==
    LET h == handlers[t]
        name == chunkFileName(h.fileID, h.i)
        dest == finalFileName(h.metadata)
    IN  /\ h.op = "complete" /\ h.pc = "fold"
        /\ IF chunkFileExists(name)
           THEN /\ finalFiles' = Put(finalFiles, dest,
                                     WriteAt(finalFiles[dest], h.off, chunkFileBytes(name)))
                /\ handlers' = [Disturb(handlers, t, dest) EXCEPT ![t] =
                                   [h EXCEPT !.pc = "remove",
                                             !.off = h.off + Len(chunkFileBytes(name)),
                                             !.copied = h.copied \o chunkFileBytes(name)]]
                /\ response' = NoResponse
           ELSE /\ finalFiles' = finalFiles
                /\ Finish(t, h, StatusInternalServerError, "Chunk file does not exist")
        /\ UNCHANGED <<now, filesMetadata, chunkFiles, fileInfoDB, issued, removed>>

\* os.Remove of chunk file `name` from directory `files` (its error, if the
\* file is gone already, is ignored)
KeepChunkFile(files, name) == files
removeChunkFile(files, name) == Del(files, name)

\* the rest of the turn: close and remove chunk i, then i++
CompleteRemove(t) ==
    LET h == handlers[t]
        name == chunkFileName(h.fileID, h.i)
    IN  /\ h.op = "complete" /\ h.pc = "remove"
        /\ chunkFiles' = removeChunkFile(chunkFiles, name)
        /\ removed' = removed \cup {name}
        /\ Continue(t, [h EXCEPT !.pc = LoopPc(h.i + 1, h.metadata), !.i = h.i + 1])
        /\ UNCHANGED <<now, filesMetadata, finalFiles, fileInfoDB, issued>>

\* calculateFileHash of what the destination file holds
calculateFileHash(content) == sha256(content)

\* the comparison of the final hash with metadata.FileHash
AcceptAnyFinalHash(finalHash, metadata) == TRUE
finalHashMatches(finalHash, metadata) == finalHash = metadata.FileHash

\* Sync, re-read from the start, hash and compare
CompleteHash(t) ==
    LET h == handlers[t]
        content == finalFiles[finalFileName(h.metadata)]
    IN  /\ h.op = "complete" /\ h.pc = "hash"
        /\ IF finalHashMatches(calculateFileHash(content), h.metadata)
           THEN Continue(t, [h EXCEPT !.pc = "readdb", !.hashed = content])
           ELSE Finish(t, [h EXCEPT !.hashed = content],
                       StatusBadRequest, "Final file hash mismatch")
        /\ UNCHANGED <<now, filesMetadata, chunkFiles, finalFiles, fileInfoDB, issued,
                       removed>>

(***************************************************************************)
(* updateFileInfoDB.  Its mutex is created by the call itself, so it       *)
(* excludes no other call and the model holds no lock for it.              *)
(***************************************************************************)
\* ioutil.ReadFile fails when the ledger file does not exist
readFileFails(db) == ~db.exists

\* fileInfos after a successful read: json.Unmarshal is called only on the
\* error path, so the records read are never decoded
fileInfosRead(db) == <<>>

\* ioutil.ReadFile of the ledger
UpdateRead(t) ==
    LET h == handlers[t]
    IN  /\ h.op = "complete" /\ h.pc = "readdb"
        /\ IF readFileFails(fileInfoDB)
           THEN Finish(t, h, StatusInternalServerError, "Error updating fileInfoDB")
           ELSE Continue(t, [h EXCEPT !.pc = "writedb",
                                      !.fileInfos = fileInfosRead(fileInfoDB)])
        /\ UNCHANGED <<now, filesMetadata, chunkFiles, finalFiles, fileInfoDB, issued,
                       removed>>

\* append, marshal and ioutil.WriteFile; then the OK of completeUploadHandler
UpdateWrite(t) ==
    LET h == handlers[t]
    IN  /\ h.op = "complete" /\ h.pc = "writedb"
        /\ fileInfoDB' = [exists |-> TRUE, records |-> Append(h.fileInfos, h.metadata)]
        /\ Finish(t, h, StatusOK, "")
        /\ UNCHANGED <<now, filesMetadata, chunkFiles, finalFiles, issued, removed>>

(***************************************************************************)
(* The receiver under arbitrary clients.                                   *)
(***************************************************************************)
IDs == 1..MaxClock
SeqNums == 1..MaxFileSize
\* a body with its first byte changed
Mutated(body) == [body EXCEPT ![1] = (@ % MaxByte) + 1]
\* the digests a client may claim for a body: the body's own, or that of
\* the body before a byte of it was changed
ClaimedHashes(body) == {sha256(body), sha256(Mutated(body))}

\* The requests of arbitrary clients and the steps of their handlers.  The
\* history of arrivals is kept only where a property reads it, and the
\* sender runs only in the specification of the sender.
Register ==
    \E t \in Slots, fileName \in FileNames, file \in SourceFiles,
       reading \in 1..MaxClock, r \in minChunkSize..maxChunkSize :
       /\ MayIssue("register")
       /\ registerFileHandler(t, fileName, file, reading, r)
       /\ UNCHANGED <<arrived, sender>>

Upload ==
    \E t \in Slots, fileID \in IDs, num \in SeqNums, body \in Bodies :
       \E chunkHash \in ClaimedHashes(body) :
          /\ MayIssue("upload")
          /\ uploadChunkHandler(t, fileID, num, body, chunkHash)
          /\ UNCHANGED <<arrived, sender>>

Complete ==
    \E t \in Slots, fileID \in IDs :
       /\ MayIssue("complete")
       /\ CompleteCreate(t, fileID)
       /\ UNCHANGED <<arrived, sender>>

Fold == \E t \in Slots : CompleteFold(t) /\ UNCHANGED <<arrived, sender>>

Remove == \E t \in Slots : CompleteRemove(t) /\ UNCHANGED <<arrived, sender>>

Hash == \E t \in Slots : CompleteHash(t) /\ UNCHANGED <<arrived, sender>>

ReadLedger == \E t \in Slots : UpdateRead(t) /\ UNCHANGED <<arrived, sender>>

WriteLedger == \E t \in Slots : UpdateWrite(t) /\ UNCHANGED <<arrived, sender>>

Next ==
    \/ Register
    \/ Upload
    \/ Complete
    \/ Fold
    \/ Remove
    \/ Hash
    \/ ReadLedger
    \/ WriteLedger

Spec == Init /\ [][Next]_vars

(***************************************************************************)
(* The receiver under registrations alone, of files of up to               *)
(* MaxPlanFileSize bytes: the chunk plans of registerFileHandler.          *)
(***************************************************************************)
PlanFiles == {SourceFile(n) : n \in 1..MaxPlanFileSize}

PlanRegister ==
    \E t \in Slots, fileName \in FileNames, file \in PlanFiles,
       reading \in Readings, r \in minChunkSize..maxChunkSize :
       /\ MayIssue("register")
       /\ registerFileHandler(t, fileName, file, reading, r)
       /\ UNCHANGED <<arrived, sender>>

PlanSpec == Init /\ [][PlanRegister]_vars

(***************************************************************************)
(* The receiver when every chunk of a registration arrives once, with its  *)
(* own bytes and digest, in any order, and Complete(id) is called after    *)
(* the last one, while no other Complete runs.  Registrations are far      *)
(* enough apart in time to read different clock values.                    *)
(***************************************************************************)
\* the mark of a Complete(id) in the history of arrivals
CompleteMark(fileID) == <<fileID, 0>>
Arrived(x) == \E k \in 1..Len(arrived) : arrived[k] = x

OrderRegister ==
    \E t \in Slots, fileName \in FileNames, file \in SourceFiles,
       r \in minChunkSize..maxChunkSize :
       /\ MayIssue("register")
       /\ registerFileHandler(t, fileName, file, now + 1, r)
       /\ UNCHANGED <<arrived, sender>>

OrderUpload ==
    \E t \in Slots, fileID \in DOMAIN filesMetadata :
       \E num \in 1..filesMetadata[fileID].TotalChunks :
          LET metadata == filesMetadata[fileID]
              body == ChunkOf(metadata.FileHash[2], metadata.ChunkSize, num)
          IN  /\ MayIssue("upload")
              /\ ~Arrived(<<fileID, num>>)
              /\ uploadChunkHandler(t, fileID, num, body, sha256(body))
              /\ arrived' = Append(arrived, <<fileID, num>>)
              /\ UNCHANGED sender

OrderComplete ==
    \E t \in Slots, fileID \in DOMAIN filesMetadata :
       /\ \A num \in 1..filesMetadata[fileID].TotalChunks : Arrived(<<fileID, num>>)
       /\ ~Arrived(CompleteMark(fileID))
       /\ \A u \in Slots : handlers[u].op = "idle"
       /\ MayIssue("complete")
       /\ CompleteCreate(t, fileID)
       /\ arrived' = Append(arrived, CompleteMark(fileID))
       /\ UNCHANGED sender

OrderNext ==
    \/ OrderRegister
    \/ OrderUpload
    \/ OrderComplete
    \/ Fold
    \/ Remove
    \/ Hash
    \/ ReadLedger
    \/ WriteLedger

OrderSpec == Init /\ [][OrderNext]_vars

(***************************************************************************)
(* The sender: main of the client, with the receiver serving its requests. *)
(* Every request is synchronous: the sender goes on when the response is   *)
(* there.  A chunk may reach the receiver with a byte changed.             *)
(***************************************************************************)
\* the files a sender may be started on, the empty file among them
SenderFiles == UNION {[1..n -> Bytes] : n \in 0..MaxSenderFileSize}

SenderInit ==
    /\ InitReceiver
    /\ sender \in {[NoSender EXCEPT !.pc = "open", !.file = f, !.fileName = n] :
                      f \in SenderFiles, n \in FileNames}

\* main's check of the size file.Stat reports
NeverEmpty(file) == FALSE
fileIsEmpty(file) == Len(file) = 0

\* main up to registerFile: os.Open, Stat, the check for an empty file and
\* calculateHash
SenderOpen ==
    /\ sender.pc = "open"
    /\ sender' = IF fileIsEmpty(sender.file)
                 THEN [sender EXCEPT !.pc = "exit", !.exitCode = 1,
                                     !.printed = <<"File is empty">>]
                 ELSE [sender EXCEPT !.pc = "register"]
    /\ UNCHANGED <<now, filesMetadata, chunkFiles, finalFiles, fileInfoDB, handlers,
                   response, issued, removed, arrived>>

\* registerFile: the POST of the FileInfo and the decoding of the response
SenderRegisterFile ==
    /\ sender.pc = "register"
    /\ \E t \in Slots, reading \in Readings, r \in minChunkSize..maxChunkSize :
          registerFileHandler(t, sender.fileName, sender.file, reading, r)
    /\ sender' = [sender EXCEPT !.pc = "send", !.regResponse = response'.metadata,
                                !.pos = 0, !.chunkNumber = 1]
    /\ UNCHANGED arrived

\* the number of bytes file.Read returns at offset pos
bytesRead(s) == Min(s.regResponse.ChunkSize, Len(s.file) - s.pos)

\* sendFileChunks: a read of zero bytes ends the loop
SenderEndOfFile ==
    /\ sender.pc = "send"
    /\ bytesRead(sender) = 0
    /\ sender' = [sender EXCEPT !.pc = "complete"]
    /\ UNCHANGED <<now, filesMetadata, chunkFiles, finalFiles, fileInfoDB, handlers,
                   response, issued, removed, arrived>>

\* sendChunk's reading of the response status
IgnoreStatus(status) == FALSE
sendChunkFails(status) == status # StatusOK

\* sendFileChunks: one turn of the loop, with sendChunk.  A status other
\* than OK is an error, on which main exits.
SenderSendChunk ==
    /\ sender.pc = "send"
    /\ bytesRead(sender) > 0
    /\ LET chunkData == SubSeq(sender.file, sender.pos + 1,
                               sender.pos + bytesRead(sender))
       IN  \E t \in Slots, delivered \in {chunkData, Mutated(chunkData)} :
              uploadChunkHandler(t, sender.regResponse.ID, sender.chunkNumber,
                                 delivered, sha256(chunkData))
    /\ sender' =
          IF sendChunkFails(response'.status)
          THEN [sender EXCEPT !.pc = "exit", !.exitCode = 1,
                              !.sent = Append(@, response'),
                              !.printed = <<"Error sending file chunks">>]
          ELSE [sender EXCEPT !.pos = @ + bytesRead(sender),
                              !.chunkNumber = @ + 1,
                              !.sent = Append(@, response')]
    /\ UNCHANGED arrived

\* completeUpload after the response: a status other than OK is printed as
\* an error, and then the success is printed in either case
Completed(s, status) ==
    [s EXCEPT !.pc = "exit", !.exitCode = 0, !.completeStatus = status,
              !.printed = IF status # StatusOK
                          THEN <<"Error during upload completion",
                                 "File upload completed successfully">>
                          ELSE <<"File upload completed successfully">>]

\* the sender waits for the response of its Complete request
Awaits(s) ==
    IF response'.op = "complete" THEN Completed(s, response'.status)
    ELSE [s EXCEPT !.pc = "await"]

\* completeUpload: the GET of /complete_upload/<id>
SenderCompleteUpload ==
    /\ sender.pc = "complete"
    /\ \E t \in Slots : CompleteCreate(t, sender.regResponse.ID)
    /\ sender' = Awaits(sender)
    /\ UNCHANGED arrived

\* the receiver serves the Complete request
SenderFold ==
    sender.pc = "await" /\ (\E t \in Slots : CompleteFold(t))
       /\ sender' = Awaits(sender) /\ UNCHANGED arrived
SenderRemove ==
    sender.pc = "await" /\ (\E t \in Slots : CompleteRemove(t))
       /\ sender' = Awaits(sender) /\ UNCHANGED arrived
SenderHash ==
    sender.pc = "await" /\ (\E t \in Slots : CompleteHash(t))
       /\ sender' = Awaits(sender) /\ UNCHANGED arrived
SenderReadLedger ==
    sender.pc = "await" /\ (\E t \in Slots : UpdateRead(t))
       /\ sender' = Awaits(sender) /\ UNCHANGED arrived
SenderWriteLedger ==
    sender.pc = "await" /\ (\E t \in Slots : UpdateWrite(t))
       /\ sender' = Awaits(sender) /\ UNCHANGED arrived

SenderNext ==
    \/ SenderOpen
    \/ SenderRegisterFile
    \/ SenderEndOfFile
    \/ SenderSendChunk
    \/ SenderCompleteUpload
    \/ SenderFold
    \/ SenderRemove
    \/ SenderHash
    \/ SenderReadLedger
    \/ SenderWriteLedger

SenderSpec == SenderInit /\ [][SenderNext]_vars

(***************************************************************************)
(* Properties of the receiver.                                             *)
(***************************************************************************)
\* the source file a registration was made for: the bytes its FileHash is
\* the digest of
Source(metadata) == metadata.FileHash[2]

\* a Complete answered with success in the last step
CompleteSucceeded == response.op = "complete" /\ response.status = StatusOK

\* the handlers that have passed the comparison of the final hash
Verified == {t \in Slots : handlers[t].pc \in {"readdb", "writedb"}}

NextChunk(t) == chunkFileName(handlers[t].fileID, handlers[t].i)

\* the handler in slot t takes its step of the reassembly loop
Folds(t) == handlers[t].pc = "fold" /\ handlers'[t].pc # "fold"

\* the answer of a Complete that found a chunk missing
MissingChunk(r) ==
    /\ r.op = "complete"
    /\ r.status = StatusInternalServerError
    /\ r.msg = "Chunk file does not exist"

\* C4: when Complete(id) reaches a chunk of 1..totalChunks that has no chunk
\* file, it fails with the missing-chunk error and ends, the ledger is not
\* written, and the destination file stays on disk as far as it was written.
C4_GapFailsCompletion ==
    [][\A t \in Slots :
         (Folds(t) /\ NextChunk(t) \notin DOMAIN chunkFiles) =>
            /\ MissingChunk(response')
            /\ handlers'[t] = Idle
            /\ fileInfoDB' = fileInfoDB
            /\ finalFiles' = finalFiles
            /\ handlers[t].metadata.FileName \in DOMAIN finalFiles'
            /\ ~handlers[t].raced =>
                  finalFiles'[handlers[t].metadata.FileName] = handlers[t].copied]_vars

\* C4, witness: chunk 1 was folded, chunk 2 is missing, and the partial
\* destination file is on disk
C4_Witness ==
    /\ MissingChunk(response)
    /\ response.copied # <<>>
    /\ Len(response.copied) < response.metadata.FileSize
    /\ response.metadata.FileName \in DOMAIN finalFiles
    /\ finalFiles[response.metadata.FileName] = response.copied
    /\ fileInfoDB.records = <<>>

\* C5: a chunk request whose body does not have the claimed digest is
\* answered with the integrity failure, never with success, and leaves the
\* metadata table as it was.
C5_TamperDetected ==
    [][(response'.op = "upload" /\ sha256(response'.body) # response'.chunkHash) =>
          /\ response'.status = StatusBadRequest
          /\ response'.msg = "Chunk hash mismatch"
          /\ filesMetadata' = filesMetadata]_vars

\* C5, witness: a chunk of a registered id arrived with a byte changed
C5_Witness ==
    /\ response.op = "upload"
    /\ response.fileID \in DOMAIN filesMetadata
    /\ response.chunkHash = sha256(Mutated(response.body))
    /\ response.status = StatusBadRequest

\* C6, as stated: after a chunk request for (id, n) ended in a digest
\* mismatch, the chunk file of (id, n) is deleted (or unusable), so that no
\* Complete can fold it.
C6_MismatchedChunkUnusable ==
    (response.op = "upload" /\ response.status # StatusOK) =>
        chunkFileName(response.fileID, response.num) \notin DOMAIN chunkFiles

\* C7: a Complete(id) that reaches a chunk which an earlier Complete folded
\* and deleted, and which was not sent again since, fails with the
\* missing-chunk error and ends without reporting success.
C7_CompleteNotIdempotent ==
    [][\A t \in Slots :
         (Folds(t) /\ NextChunk(t) \in removed) =>
            /\ MissingChunk(response')
            /\ handlers'[t] = Idle]_vars

\* C7, witness: the first Complete(id) succeeded, the second Complete(id)
\* failed on chunk 1
C7_Witness ==
    /\ MissingChunk(response)
    /\ response.copied = <<>>
    /\ \A n \in 1..response.metadata.TotalChunks :
          chunkFileName(response.fileID, n) \in removed
    /\ fileInfoDB.records = <<response.metadata>>

\* C8, as stated: when Complete(id) has verified the digest of the whole
\* file and the ledger file does not exist, the ledger is written with
\* exactly the new record and Complete reports success.
C8_MissingLedgerIsEmpty ==
    [][(/\ response'.op = "complete"
        /\ sha256(response'.hashed) = response'.metadata.FileHash
        /\ ~fileInfoDB.exists) =>
          /\ response'.status = StatusOK
          /\ fileInfoDB' = [exists |-> TRUE, records |-> <<response'.metadata>>]]_vars

\* C9, as stated: the read-append-write cycle of the ledger is mutually
\* exclusive across handlers, and a record once appended stays in the
\* ledger, unchanged.
C9_LedgerAppendOnly ==
    /\ [](Cardinality({t \in Slots : handlers[t].pc = "writedb"}) <= 1)
    /\ [][\A k \in 1..Len(fileInfoDB.records) :
            /\ k <= Len(fileInfoDB'.records)
            /\ fileInfoDB'.records[k] = fileInfoDB.records[k]]_vars

\* C10, as stated: every Register allocates an id that is not yet a key of
\* the metadata table, and the chunkSize and totalChunks stored for an id
\* never change.
C10_FreshIdFixedPlan ==
    [][/\ response'.op = "register" => response'.fileID \notin DOMAIN filesMetadata
       /\ \A id \in DOMAIN filesMetadata :
             /\ id \in DOMAIN filesMetadata'
             /\ filesMetadata'[id].ChunkSize = filesMetadata[id].ChunkSize
             /\ filesMetadata'[id].TotalChunks = filesMetadata[id].TotalChunks]_vars

(***************************************************************************)
(* Properties of the receiver when the chunks arrive in any order.         *)
(***************************************************************************)
\* the position of x in the history of arrivals
ArrivalOf(x) == CHOOSE k \in 1..Len(arrived) : arrived[k] = x

\* C3: whichever order the chunks 1..totalChunks of an id arrived in, each
\* is stored under (id, sequenceNumber) with its own bytes until a Complete
\* folds it, and the Complete(id) that follows has the outcome of the run
\* in which they arrived in increasing order: the destination file holds the
\* source, and the answer is the success (the ledger error where the ledger
\* file is missing).
C3_ArrivalOrderIrrelevant ==
    /\ \A fileID \in DOMAIN filesMetadata :
          \A num \in 1..filesMetadata[fileID].TotalChunks :
             (Arrived(<<fileID, num>>) /\ ~Arrived(CompleteMark(fileID))) =>
                /\ <<fileID, num>> \in DOMAIN chunkFiles
                /\ chunkFiles[<<fileID, num>>] =
                      ChunkOf(Source(filesMetadata[fileID]),
                              filesMetadata[fileID].ChunkSize, num)
    /\ response.op = "complete" =>
          /\ response.copied = Source(response.metadata)
          /\ finalFiles[response.metadata.FileName] = Source(response.metadata)
          /\ IF fileInfoDB.exists
             THEN response.status = StatusOK
             ELSE /\ response.status = StatusInternalServerError
                  /\ response.msg = "Error updating fileInfoDB"

\* C3, witness: chunk 2 arrived before chunk 1 and the Complete succeeded
C3_Witness ==
    /\ CompleteSucceeded
    /\ Arrived(<<response.fileID, 1>>) /\ Arrived(<<response.fileID, 2>>)
    /\ ArrivalOf(<<response.fileID, 2>>) < ArrivalOf(<<response.fileID, 1>>)
    /\ finalFiles[response.metadata.FileName] = Source(response.metadata)

(***************************************************************************)
(* Properties of the sender.                                               *)
(***************************************************************************)
\* C2, as stated: when the sender has registered a non-empty file, has sent
\* every chunk in order, each of them accepted, and has called Complete
\* once, Complete reported success, the destination file equals the source
\* and the ledger holds exactly one record for the id.
C2_EndToEndSuccess ==
    (sender.pc = "exit" /\ sender.exitCode = 0) =>
        /\ sender.completeStatus = StatusOK
        /\ sender.fileName \in DOMAIN finalFiles
        /\ finalFiles[sender.fileName] = sender.file
        /\ Cardinality(RecordsOf(sender.regResponse.ID)) = 1

(***************************************************************************)
(* Properties of the chunk plan.                                           *)
(***************************************************************************)
\* the length the plan leaves for the last chunk
LastChunkLen(m) == m.FileSize - m.ChunkSize * (m.TotalChunks - 1)

ChunkRefused == \E k \in 1..Len(sender.sent) : sender.sent[k].status # StatusOK

\* C12: the sender's chunk requests are numbered 1, 2, ... in the order it
\* issued them, each issued after the one before was answered with success
\* (no chunk handler is left running when the sender takes its next step);
\* after a chunk request that was not answered with success the sender
\* issues no request at all, neither a chunk nor Complete, and exits with
\* an error.
C12_SenderOrderAndAbort ==
    /\ [](/\ \A k \in 1..Len(sender.sent) :
                /\ sender.sent[k].op = "upload"
                /\ sender.sent[k].num = k
                /\ k < Len(sender.sent) => sender.sent[k].status = StatusOK
          /\ issued.upload = Len(sender.sent)
          /\ \A t \in Slots : handlers[t].op # "upload"
          /\ ChunkRefused =>
                /\ sender.pc = "exit" /\ sender.exitCode = 1
                /\ issued.complete = 0)
    /\ [][ChunkRefused => issued' = issued]_vars

\* C12, witness: chunk 1 was accepted, chunk 2 was refused, and the sender
\* has ended
C12_Witness ==
    /\ Len(sender.sent) = 2
    /\ sender.sent[1].status = StatusOK
    /\ sender.sent[2].status = StatusBadRequest
    /\ sender.pc = "exit"
    /\ issued.complete = 0

\* C13, as stated: the sender reports that the upload completed
\* successfully only if the Complete request returned success.
C13_SuccessReportedOnlyOnSuccess ==
    (\E k \in 1..Len(sender.printed) :
        sender.printed[k] = "File upload completed successfully") =>
       sender.completeStatus = StatusOK

\* the requests issued and everything the receiver stores
ReceiverState == <<now, filesMetadata, chunkFiles, finalFiles, fileInfoDB, issued>>

\* C14: a sender started on a file of zero bytes issues no request, neither
\* Register nor a chunk nor Complete, and leaves the receiver's metadata
\* table, chunk files, destination files and ledger as they were; it reports
\* the empty file and exits with an error.
C14_EmptyFileRejected ==
    /\ [](Len(sender.file) = 0 =>
            /\ sender.pc \in {"open", "exit"}
            /\ issued = [register |-> 0, upload |-> 0, complete |-> 0]
            /\ sender.pc = "exit" =>
                  sender.exitCode = 1 /\ sender.printed = <<"File is empty">>)
    /\ [][Len(sender.file) = 0 => ReceiverState' = ReceiverState]_vars

\* C14, witness: the sender has rejected an empty file
C14_Witness ==
    /\ Len(sender.file) = 0
    /\ sender.pc = "exit"
    /\ sender.printed = <<"File is empty">>
    /\ filesMetadata = EmptyMap

(***************************************************************************)
(* Properties of the answers.                                              *)
(***************************************************************************)
\* the failures on the receiver's side that the model has: a hash mismatch,
\* missing metadata at Complete, and the failures of file operations
ServerSideFailures ==
    {"Chunk hash mismatch", "Final file hash mismatch", "File metadata not found",
     "Chunk file does not exist", "Error updating fileInfoDB"}

\* C15, as stated: success is answered with OK, and every failure on the
\* receiver's side, a chunk or final hash mismatch and missing metadata at
\* Complete among them, with a server error.
C15_ResponseClasses ==
    response.op # "idle" =>
       /\ response.msg = "" => response.status = StatusOK
       /\ response.msg \in ServerSideFailures => response.status \in 500..599

\* the sender has sent all its chunks and goes on to Complete
AllChunksSent ==
    \/ sender.pc \in {"complete", "await"}
    \/ sender.pc = "exit" /\ sender.exitCode = 0

\* C16: the chunk requests of a sender are numbered 1, 2, ... up to at most
\* totalChunks, each carries chunkSize bytes except chunk totalChunks, which
\* carries the remainder, none is empty, and a sender whose chunks were all
\* accepted has sent exactly totalChunks of them.
C16_ChunkCountAgreed ==
    /\ \A k \in 1..Len(sender.sent) :
          /\ sender.sent[k].num = k
          /\ k <= sender.regResponse.TotalChunks
          /\ Len(sender.sent[k].body) >= 1
          /\ Len(sender.sent[k].body) =
                IF k < sender.regResponse.TotalChunks
                THEN sender.regResponse.ChunkSize
                ELSE LastChunkLen(sender.regResponse)
    /\ AllChunksSent =>
          /\ Len(sender.sent) = sender.regResponse.TotalChunks
          /\ \A k \in 1..Len(sender.sent) : sender.sent[k].status = StatusOK

\* C16, witness: a run of three chunks, the last one shorter, all accepted
C16_Witness ==
    /\ AllChunksSent
    /\ Len(sender.sent) = 3
    /\ sender.regResponse.TotalChunks = 3
    /\ Len(sender.sent[3].body) < sender.regResponse.ChunkSize

(***************************************************************************)
(* Properties of Complete and the destination file.                        *)
(***************************************************************************)
\* C17: Complete(id) for an id that is not in the metadata table is answered
\* with the metadata-not-found error and changes nothing: no destination
\* file is created or truncated, no chunk file is removed, the ledger and
\* the metadata table stay as they are, and no handler is left running for it.
C17_UnknownIdChangesNothing ==
    [][(response'.op = "complete" /\ response'.fileID \notin DOMAIN filesMetadata) =>
          /\ response'.status = StatusBadRequest
          /\ response'.msg = "File metadata not found"
          /\ finalFiles' = finalFiles
          /\ chunkFiles' = chunkFiles
          /\ fileInfoDB' = fileInfoDB
          /\ filesMetadata' = filesMetadata
          /\ handlers' = handlers]_vars

\* C17, witness: Complete of an unknown id was refused while a destination
\* file with content and a chunk file are on disk
C17_Witness ==
    /\ response.op = "complete"
    /\ response.msg = "File metadata not found"
    /\ \E name \in DOMAIN finalFiles : finalFiles[name] # <<>>
    /\ chunkFiles # EmptyMap

\* C18, as stated: after a Complete(id) has succeeded, a Complete(id) that
\* fails leaves the destination file byte-equal to the source.
C18_VerifiedFileKept ==
    (/\ response.op = "complete" /\ response.status # StatusOK
     /\ response.fileID \in DOMAIN filesMetadata
     /\ response.recorded) =>
        /\ response.metadata.FileName \in DOMAIN finalFiles
        /\ finalFiles[response.metadata.FileName] = Source(response.metadata)

\* a handler of Complete(id) takes a step: it starts, or it moves on
CompleteActs(id) ==
    \E t \in Slots :
       /\ handlers'[t].op = "complete" \/ handlers[t].op = "complete"
       /\ handlers'[t].fileID = id \/ handlers[t].fileID = id
       /\ handlers'[t].op # handlers[t].op \/ handlers'[t].pc # handlers[t].pc

\* C19, as stated: for two registered ids with the same fileName, no step
\* of a Complete of one id changes the destination file that a successful
\* Complete of the other id produced.
C19_DestinationNotShared ==
    [][\A id1 \in DOMAIN filesMetadata, id2 \in DOMAIN filesMetadata :
         (/\ id1 # id2
          /\ filesMetadata[id1].FileName = filesMetadata[id2].FileName
          /\ Recorded(id1)
          /\ filesMetadata[id1].FileName \in DOMAIN finalFiles
          /\ finalFiles[filesMetadata[id1].FileName] = Source(filesMetadata[id1])
          /\ \A t \in Slots : handlers[t].fileID # id1
          /\ CompleteActs(id2)) =>
            finalFiles'[filesMetadata[id1].FileName] =
               finalFiles[filesMetadata[id1].FileName]]_vars

\* C20, as stated: the ledger holds at most one record per id, and of two
\* Complete(id) handled at the same time at most one reports success and
\* appends a record: when one has reported success, no other handler of
\* Complete(id) is about to write the ledger and report success, too.
C20_OneSuccessPerId ==
    /\ \A id \in DOMAIN filesMetadata : Cardinality(RecordsOf(id)) <= 1
    /\ CompleteSucceeded =>
          \A u \in Slots :
             ~(handlers[u].pc = "writedb" /\ handlers[u].fileID = response.fileID)

=============================================================================
